---- MODULE Spec2Model ----
(***************************************************************************)
(* Analytics core of the ChalkBoard dashboard (src/src/App.jsx, the App    *)
(* component that starts at line 2646 and the helpers at lines 1302-1481): *)
(* the poll orchestrator fetchAll with its per-game history rings, and the *)
(* signal calculators that read them.                                      *)
(*                                                                         *)
(* JavaScript values are modelled as follows.                              *)
(*   object / map      a function whose DOMAIN is the set of keys present  *)
(*   missing property  the key is not in the DOMAIN                        *)
(*   array             a sequence                                          *)
(*   null              the string Null                                     *)
(*   x possibly undefined (an argument)   a set: {} or {x}                 *)
(***************************************************************************)
EXTENDS Integers, Sequences, FiniteSets, TLC

VARIABLES
    allGames,         \* React state: league slug -> array of game records
    loading,          \* React state
    error,            \* React state: Null or the "unavailable" message
    scoreHistoryRef,  \* useRef: game id -> ring of snapshots
    scoreHistory,     \* React state: the display copy of the ref
    runs,             \* fetchAll runs in flight: run number -> its fetches
    started,          \* number of fetchAll runs started so far
    ticksDone,        \* number of fetchAll runs completed so far
    appendCount,      \* history: game id -> snapshots ever stored in its ring
    heap,             \* the arrays of the rings, by reference, and who holds them
    args,             \* arguments of a direct call of a calculator
    result            \* what that call returned

vars == <<allGames, loading, error, scoreHistoryRef, scoreHistory, runs,
          started, ticksDone, appendCount, heap, args, result>>

appVars == <<allGames, loading, error, scoreHistoryRef, scoreHistory, runs,
             started, ticksDone, appendCount, heap>>

----------------------------------------------------------------------------
(* Bounds of the model *)

MaxTicks == 3        \* fetchAll runs started in the orchestrator model
MaxInFlight == 2     \* fetchAll runs in flight at once in that model
RingTicks == 12      \* fetchAll runs started in the long sequential model
MaxHistLen == 3      \* longest ring handed directly to a calculator
MaxScore == 2        \* largest score in rings handed directly to a calculator

----------------------------------------------------------------------------
(* Values *)

Null == "null"
EmptyMap == [k \in {} |-> 0]
ErrUnavailable == "Could not reach the ChalkBoard server. Is it running? (node server.js)"

\* The leagues fetched on every tick, in fetch order (two of the slugs of
\* SPORT_GROUPS: one non-soccer, one soccer).
ALL_LEAGUE_IDS == <<"nba", "mls">>

SOCCER_SLUGS == {"mls"}

LeagueSet == {ALL_LEAGUE_IDS[i] : i \in 1..Len(ALL_LEAGUE_IDS)}

\* Capacity of a history ring: the 10 of slice(-10).
HistoryCap == 10

Has(obj, key) == key \in DOMAIN obj

\* obj[key] as a possibly undefined value
Lookup(obj, key) == IF key \in DOMAIN obj THEN {obj[key]} ELSE {}

Defined(opt) == opt # {}

\* the elements of an array
Range(seq) == {seq[i] : i \in 1..Len(seq)}

ValueOf(opt) == CHOOSE v \in opt : TRUE

\* Variant: the display copy is not refreshed (the old state is passed on).
ShallowCopy_Stale(obj) == scoreHistory

\* { ...obj }
ShallowCopy(obj) == [k \in DOMAIN obj |-> obj[k]]

\* a map without one key
Without(map, key) == [k \in (DOMAIN map) \ {key} |-> map[k]]

----------------------------------------------------------------------------
(* Game records as the feed supplies them *)

Score(home, h, away, a) == (home :> h) @@ (away :> a)

LiveGame(id, sport, home, away, h, a, clock) ==
    [id |-> id, sport |-> sport, home |-> home, away |-> away,
     status |-> "in_progress", score |-> Score(home, h, away, a), clock |-> clock]

ScheduledGame(id, sport, home, away) ==
    [id |-> id, sport |-> sport, home |-> home, away |-> away, status |-> "scheduled"]

\* The response bodies (data.games) the feed can return for a league in the
\* orchestrator model.  Game ids are unique within a tick.
Feed ==
  [slug \in {"nba", "mls"} |->
    IF slug = "nba"
    THEN { <<ScheduledGame("G1", "nba", "H", "A")>>,
           <<LiveGame("G1", "nba", "H", "A", 10, 8, "Q3 5:00")>>,
           <<LiveGame("G1", "nba", "H", "A", 12, 8, "Q3 2:00")>>,
           <<LiveGame("G1", "nba", "H", "A", 12, 8, "4th 9:00")>> }
    ELSE { <<>>,
           <<LiveGame("G2", "mls", "X", "Y", 1, 0, "70'")>> }]

\* The response bodies of the long sequential model: one live game whose
\* score keeps changing, nothing in the other league.
RingFeed ==
  [slug \in {"nba", "mls"} |->
    IF slug = "nba"
    THEN { <<LiveGame("G1", "nba", "H", "A", 10, 8, "Q3 5:00")>>,
           <<LiveGame("G1", "nba", "H", "A", 12, 8, "Q3 2:00")>>,
           <<LiveGame("G1", "nba", "H", "A", 12, 8, "4th 9:00")>> }
    ELSE { <<>> }]

----------------------------------------------------------------------------
(* The history store: the append of fetchAll, lines 2745-2761 *)

\* currentSnap: { [home]: score[home], [away]: score[away], clock: clock ?? null }
\* (a side missing from the score leaves the key undefined: not in the DOMAIN)
CurrentSnap(game) ==
    LET sides == {game.home, game.away} \cap DOMAIN game.score
    IN  [k \in sides |-> game.score[k]]
        @@ ("clock" :> IF Has(game, "clock") THEN game.clock ELSE Null)

\* a[key] !== b[key]
StrictNeq(a, b, key) ==
    \/ Has(a, key) # Has(b, key)
    \/ Has(a, key) /\ Has(b, key) /\ a[key] # b[key]

\* Variant: a change of the clock text counts as a change of the score.
ScoreChanged_WithClock(prev, game) ==
    \/ Len(prev) = 0
    \/ prev[Len(prev)] # CurrentSnap(game)

\* scoreChanged: !lastSnap || lastSnap[home] !== currentSnap[home]
\*                          || lastSnap[away] !== currentSnap[away]
ScoreChanged(prev, game) ==
    \/ Len(prev) = 0
    \/ StrictNeq(prev[Len(prev)], CurrentSnap(game), game.home)
    \/ StrictNeq(prev[Len(prev)], CurrentSnap(game), game.away)

\* Variant: no trim at all.
SliceLast_KeepAll(arr, n) == arr

\* Variant: slice(0, n), which keeps the oldest entries.
SliceLast_First(arr, n) ==
    IF Len(arr) <= n THEN arr ELSE SubSeq(arr, 1, n)

\* arr.slice(-n)
SliceLast(arr, n) ==
    IF Len(arr) <= n THEN arr ELSE SubSeq(arr, Len(arr) - n + 1, Len(arr))

\* Variant: the ring is replaced by the new snapshot instead of extended.
AppendGame_Replace(hist, game) ==
    IF game.status = "in_progress" /\ Has(game, "score")
    THEN (game.id :> <<CurrentSnap(game)>>) @@ hist
    ELSE hist

\* Variant: the status of the game is not looked at.
AppendGame_AnyStatus(hist, game) ==
    IF Has(game, "score")
    THEN LET prev == IF Has(hist, game.id) THEN hist[game.id] ELSE <<>>
         IN  IF ScoreChanged(prev, game)
             THEN (game.id :> SliceLast(Append(prev, CurrentSnap(game)), HistoryCap))
                  @@ hist
             ELSE hist
    ELSE hist

\* The body of the loop for one game: the history store after the game.
AppendGame(hist, game) ==
    IF game.status = "in_progress" /\ Has(game, "score")
    THEN LET prev == IF Has(hist, game.id) THEN hist[game.id] ELSE <<>>
         IN  IF ScoreChanged(prev, game)
             THEN (game.id :> SliceLast(Append(prev, CurrentSnap(game)), HistoryCap))
                  @@ hist
             ELSE hist
    ELSE hist

\* for (const game of games) ...
RECURSIVE AppendGames(_, _)
AppendGames(hist, games) ==
    IF games = <<>> THEN hist
    ELSE AppendGames(AppendGame(hist, Head(games)), Tail(games))

\* Variant: a rejected result ends the loop (break instead of continue).
RECURSIVE AppendResults_Break(_, _, _)
AppendResults_Break(hist, gameMap, i) ==
    IF i > Len(ALL_LEAGUE_IDS) THEN hist
    ELSE IF Has(gameMap, ALL_LEAGUE_IDS[i])
         THEN AppendResults_Break(AppendGames(hist, gameMap[ALL_LEAGUE_IDS[i]]), gameMap, i + 1)
         ELSE hist

\* for (const result of results) ... over the fulfilled results, in the
\* order of ALL_LEAGUE_IDS, from position i on
RECURSIVE AppendResults(_, _, _)
AppendResults(hist, gameMap, i) ==
    IF i > Len(ALL_LEAGUE_IDS) THEN hist
    ELSE IF Has(gameMap, ALL_LEAGUE_IDS[i])
         THEN AppendResults(AppendGames(hist, gameMap[ALL_LEAGUE_IDS[i]]), gameMap, i + 1)
         ELSE AppendResults(hist, gameMap, i + 1)

\* History variable: every assignment to a ring stores one snapshot.
CountAppends(count, before, after) ==
    [id \in DOMAIN after |->
        (IF Has(count, id) THEN count[id] ELSE 0)
        + (IF Lookup(before, id) # Lookup(after, id) THEN 1 ELSE 0)]

----------------------------------------------------------------------------
(* Signal calculators *)

\* Variant: >= instead of >.
Greater_OrEqual(curr, prev, key) ==
    Has(curr, key) /\ Has(prev, key) /\ curr[key] >= prev[key]

\* curr[key] > prev[key]: false when either side is undefined
Greater(curr, prev, key) ==
    Has(curr, key) /\ Has(prev, key) /\ curr[key] > prev[key]

\* obj[key] ?? 0
OrZero(obj, key) == IF Has(obj, key) THEN obj[key] ELSE 0

\* getMomentum, lines 1368-1381: the abbreviation of the side on a run, or Null
getMomentum(history, gameId, homeAbbr, awayAbbr) ==
    IF ~Has(history, gameId) \/ Len(history[gameId]) < 2 THEN Null
    ELSE LET ring == history[gameId]
             prev == ring[Len(ring) - 1]
             curr == ring[Len(ring)]
             homeScored == Greater(curr, prev, homeAbbr)
             awayScored == Greater(curr, prev, awayAbbr)
         IN  IF homeScored /\ ~awayScored THEN homeAbbr
             ELSE IF awayScored /\ ~homeScored THEN awayAbbr
             ELSE Null

\* getScoreDelta, lines 1474-1481.  The argument is scoreHistory[game.id], a
\* possibly undefined ring; the value is {} for null and {mapping} otherwise.
getScoreDelta(history, homeAbbr, awayAbbr) ==
    IF ~Defined(history) \/ Len(ValueOf(history)) < 2 THEN {}
    ELSE LET ring == ValueOf(history)
             prev == ring[Len(ring) - 1]
             curr == ring[Len(ring)]
             hd == OrZero(curr, homeAbbr) - OrZero(prev, homeAbbr)
             ad == OrZero(curr, awayAbbr) - OrZero(prev, awayAbbr)
         IN  IF hd = 0 /\ ad = 0 THEN {}
             ELSE { (homeAbbr :> hd) @@ (awayAbbr :> ad) }

Abs(x) == IF x < 0 THEN -x ELSE x

Max(a, b) == IF a >= b THEN a ELSE b

Min(a, b) == IF a <= b THEN a ELSE b

\* obj[key] ?? 50
OrFifty(obj, key) == IF Has(obj, key) THEN obj[key] ELSE 50

\* Variant: the gap must be below 15.
isUpsetAlert_Strict(win_probability, home, away) ==
    IF ~Defined(win_probability) THEN FALSE
    ELSE Abs(OrFifty(ValueOf(win_probability), home)
             - OrFifty(ValueOf(win_probability), away)) < 15

\* isUpsetAlert, lines 1354-1359.  The first argument is game.win_probability,
\* possibly undefined.
isUpsetAlert(win_probability, home, away) ==
    IF ~Defined(win_probability) THEN FALSE
    ELSE LET homePct == OrFifty(ValueOf(win_probability), home)
             awayPct == OrFifty(ValueOf(win_probability), away)
         IN  Abs(homePct - awayPct) <= 15

----------------------------------------------------------------------------
(* Free text: a string is the sequence of its characters *)

Digits == {"0", "1", "2", "3", "4", "5", "6", "7", "8", "9"}

DigitValue(c) ==
    CASE c = "0" -> 0 [] c = "1" -> 1 [] c = "2" -> 2 [] c = "3" -> 3
      [] c = "4" -> 4 [] c = "5" -> 5 [] c = "6" -> 6 [] c = "7" -> 7
      [] c = "8" -> 8 [] c = "9" -> 9

\* the position after the run of digits (\d*) that starts at position i
RECURSIVE DigitsEnd(_, _)
DigitsEnd(text, i) ==
    IF i <= Len(text) /\ text[i] \in Digits THEN DigitsEnd(text, i + 1) ELSE i

\* the decimal value of the digits at positions from..(to - 1)
RECURSIVE DigitsValue(_, _, _)
DigitsValue(text, from, to) ==
    IF from >= to THEN 0
    ELSE 10 * DigitsValue(text, from, to - 1) + DigitValue(text[to - 1])

RECURSIVE Pow10(_)
Pow10(n) == IF n = 0 THEN 1 ELSE 10 * Pow10(n - 1)

\* Where /-?\d+\.?\d*/ first matches: the leftmost position that holds a
\* digit, or a minus sign followed by a digit; 0 when there is none.
NumberStart(text) ==
    LET starts == {i \in 1..Len(text) :
                      \/ text[i] \in Digits
                      \/ text[i] = "-" /\ i < Len(text) /\ text[i + 1] \in Digits}
    IN  IF starts = {} THEN 0
        ELSE CHOOSE i \in starts : \A j \in starts : i <= j

\* Math.abs(parseFloat(match[0])) for the first match of /-?\d+\.?\d*/, and 0
\* without a match; the value is the fraction num / den.
SpreadValue(text) ==
    IF NumberStart(text) = 0 THEN [num |-> 0, den |-> 1]
    ELSE LET s == NumberStart(text)
             intFrom == IF text[s] = "-" THEN s + 1 ELSE s
             intTo == DigitsEnd(text, intFrom)
             hasDot == intTo <= Len(text) /\ text[intTo] = "."
             fracFrom == intTo + 1
             fracTo == IF hasDot THEN DigitsEnd(text, fracFrom) ELSE fracFrom
             k == fracTo - fracFrom
         IN  [num |-> DigitsValue(text, intFrom, intTo) * Pow10(k)
                      + DigitsValue(text, fracFrom, fracTo),
              den |-> Pow10(k)]

\* a > b for two fractions
FracGreater(a, b) == a.num * b.den > b.num * a.den

----------------------------------------------------------------------------
(* The Best Bet ranker *)

\* Object.entries(allGames) with the games of each league flattened: the
\* [game, league] pairs in iteration order.  allGames is built by fetchAll
\* in the order of ALL_LEAGUE_IDS, which is the order of its keys.
RECURSIVE EntriesFrom(_, _)
EntriesFrom(games, i) ==
    IF i > Len(ALL_LEAGUE_IDS) THEN <<>>
    ELSE LET slug == ALL_LEAGUE_IDS[i]
         IN  (IF Has(games, slug)
              THEN [j \in 1..Len(games[slug]) |-> [game |-> games[slug][j], league |-> slug]]
              ELSE <<>>)
             \o EntriesFrom(games, i + 1)

Entries(games) == EntriesFrom(games, 1)

\* !game.spread?.favorite is false: the spread has a non-empty favorite text
HasFavorite(game) ==
    /\ Has(game, "spread")
    /\ Has(game.spread, "favorite")
    /\ game.spread.favorite # <<>>

\* First pass of findBestBet, lines 1306-1321, from entry i on; acc holds
\* best ({} for null) and bestSkew.
RECURSIVE BetPass1(_, _, _)
BetPass1(entries, i, acc) ==
    IF i > Len(entries) THEN acc
    ELSE LET game == entries[i].game
         IN  IF game.status # "scheduled" \/ ~Has(game, "win_probability")
             THEN BetPass1(entries, i + 1, acc)
             ELSE LET homePct == OrFifty(game.win_probability, game.home)
                      awayPct == OrFifty(game.win_probability, game.away)
                      skew == Abs(homePct - awayPct)
                  IN  IF skew > acc.bestSkew
                      THEN BetPass1(entries, i + 1,
                               [best |-> {[game |-> game, league |-> entries[i].league,
                                           favPct |-> {Max(homePct, awayPct)}]},
                                bestSkew |-> skew])
                      ELSE BetPass1(entries, i + 1, acc)

\* Second pass, lines 1323-1337; acc holds best and bestSpreadVal.
RECURSIVE BetPass2(_, _, _)
BetPass2(entries, i, acc) ==
    IF i > Len(entries) THEN acc
    ELSE LET game == entries[i].game
         IN  IF game.status # "scheduled" \/ ~HasFavorite(game)
             THEN BetPass2(entries, i + 1, acc)
             ELSE LET spreadVal == SpreadValue(game.spread.favorite)
                  IN  IF FracGreater(spreadVal, acc.bestSpreadVal)
                      THEN BetPass2(entries, i + 1,
                               [best |-> {[game |-> game, league |-> entries[i].league,
                                           favPct |-> {}]},
                                bestSpreadVal |-> spreadVal])
                      ELSE BetPass2(entries, i + 1, acc)

\* (allGames[slug] ?? []).find(g => g.status === "scheduled"), from index j
RECURSIVE FindScheduled(_, _)
FindScheduled(games, j) ==
    IF j > Len(games) THEN {}
    ELSE IF games[j].status = "scheduled" THEN {games[j]}
    ELSE FindScheduled(games, j + 1)

\* Variant: the third pass takes the first game of any status.
RECURSIVE BetPass3_AnyStatus(_, _)
BetPass3_AnyStatus(games, i) ==
    IF i > Len(ALL_LEAGUE_IDS) THEN {}
    ELSE LET slug == ALL_LEAGUE_IDS[i]
             list == IF Has(games, slug) THEN games[slug] ELSE <<>>
         IN  IF list # <<>>
             THEN {[game |-> list[1], league |-> slug, favPct |-> {}]}
             ELSE BetPass3_AnyStatus(games, i + 1)

\* Third pass, lines 1339-1345, from league i on.
RECURSIVE BetPass3(_, _)
BetPass3(games, i) ==
    IF i > Len(ALL_LEAGUE_IDS) THEN {}
    ELSE LET slug == ALL_LEAGUE_IDS[i]
             next == FindScheduled(IF Has(games, slug) THEN games[slug] ELSE <<>>, 1)
         IN  IF next # {}
             THEN {[game |-> ValueOf(next), league |-> slug, favPct |-> {}]}
             ELSE BetPass3(games, i + 1)

\* findBestBet, lines 1302-1348: {} for null, else {[game, league, favPct]}
\* with favPct {} for null.
findBestBet(games) ==
    LET pass1 == BetPass1(Entries(games), 1, [best |-> {}, bestSkew |-> 0]).best
        pass2 == IF pass1 # {} THEN pass1
                 ELSE BetPass2(Entries(games), 1,
                               [best |-> {}, bestSpreadVal |-> [num |-> 0, den |-> 1]]).best
    IN  IF pass2 # {} THEN pass2 ELSE BetPass3(games, 1)

----------------------------------------------------------------------------
(* Clock texts and the tests made on them *)

UpperLetters ==
    <<"A", "B", "C", "D", "E", "F", "G", "H", "I", "J", "K", "L", "M",
      "N", "O", "P", "Q", "R", "S", "T", "U", "V", "W", "X", "Y", "Z">>

LowerLetters ==
    <<"a", "b", "c", "d", "e", "f", "g", "h", "i", "j", "k", "l", "m",
      "n", "o", "p", "q", "r", "s", "t", "u", "v", "w", "x", "y", "z">>

\* String.prototype.toLowerCase, character by character
ToLowerCase(text) ==
    [i \in 1..Len(text) |->
        IF \E k \in 1..Len(UpperLetters) : UpperLetters[k] = text[i]
        THEN LowerLetters[CHOOSE k \in 1..Len(UpperLetters) : UpperLetters[k] = text[i]]
        ELSE text[i]]

\* String.prototype.includes
Includes(text, sub) ==
    \E i \in 1..(Len(text) - Len(sub) + 1) : SubSeq(text, i, i + Len(sub) - 1) = sub

\* a character of the class \w
IsWordChar(c) ==
    \/ c \in Digits
    \/ c = "_"
    \/ \E k \in 1..Len(UpperLetters) : c = UpperLetters[k] \/ c = LowerLetters[k]

\* \b in front of a word character at position i: the start of the text or a
\* non-word character before it
WordStartsAt(text, i) == i = 1 \/ ~IsWordChar(text[i - 1])

\* Variant: the pattern for the minutes from 100 on is left out.
SoccerMinuteLate_TwoDigits(text) ==
    \E i \in 1..(Len(text) - 2) :
        /\ WordStartsAt(text, i)
        /\ text[i] \in {"7", "8", "9"}
        /\ text[i + 1] \in Digits
        /\ text[i + 2] = "'"

\* /\b[7-9]\d'|\b1[0-9]\d'/.test(text): a soccer minute from 70 on
SoccerMinuteLate(text) ==
    \/ \E i \in 1..(Len(text) - 2) :
          /\ WordStartsAt(text, i)
          /\ text[i] \in {"7", "8", "9"}
          /\ text[i + 1] \in Digits
          /\ text[i + 2] = "'"
    \/ \E i \in 1..(Len(text) - 3) :
          /\ WordStartsAt(text, i)
          /\ text[i] = "1"
          /\ text[i + 1] \in Digits
          /\ text[i + 2] \in Digits
          /\ text[i + 3] = "'"

\* /OT|overtime|extra|pen/i.test(text)
OvertimeText(text) ==
    LET lower == ToLowerCase(text)
    IN  \/ Includes(lower, <<"o", "t">>)
        \/ Includes(lower, <<"o", "v", "e", "r", "t", "i", "m", "e">>)
        \/ Includes(lower, <<"e", "x", "t", "r", "a">>)
        \/ Includes(lower, <<"p", "e", "n">>)

\* game.clock ?? ""
ClockOf(game) == IF Has(game, "clock") THEN game.clock ELSE <<>>

\* game.score?.[key] ?? 0
ScoreOrZero(game, key) == IF Has(game, "score") THEN OrZero(game.score, key) ELSE 0

----------------------------------------------------------------------------
(* The live signals *)

\* { nba: 5, nfl: 8, nhl: 1, ncaaf: 10, mlb: 2, wnba: 5 }[sport] ?? 5
SportThreshold(sport) ==
    CASE sport = "nba" -> 5
      [] sport = "nfl" -> 8
      [] sport = "nhl" -> 1
      [] sport = "ncaaf" -> 10
      [] sport = "mlb" -> 2
      [] sport = "wnba" -> 5
      [] OTHER -> 5

isTenseMoment(game) ==
    IF game.status # "in_progress" \/ ~Has(game, "score") THEN FALSE
    ELSE LET margin == Abs(OrZero(game.score, game.home) - OrZero(game.score, game.away))
             clock == ToLowerCase(ClockOf(game))
             isLate ==
                 \/ Includes(clock, <<"4", "t", "h">>)
                 \/ Includes(clock, <<"3", "r", "d">>) /\ game.sport = "nhl"
                 \/ Includes(clock, <<"o", "t">>)
                 \/ Includes(clock, <<"o", "v", "e", "r", "t", "i", "m", "e">>)
                 \/ Includes(clock, <<"e", "x", "t", "r", "a">>)
                 \/ SoccerMinuteLate(clock)
             threshold == IF game.sport \in SOCCER_SLUGS THEN 1
                          ELSE SportThreshold(game.sport)
         IN  isLate /\ margin <= threshold

\* The excitement of one live game, counted in halves of a point:
\* Math.max(0, 15 - margin * 1.5), + 8 when tense, + Math.min(ring length, 5)
Excitement(game, history) ==
    LET margin == Abs(ScoreOrZero(game, game.home) - ScoreOrZero(game, game.away))
        ring == IF Has(history, game.id) THEN history[game.id] ELSE <<>>
    IN  Max(0, 30 - margin * 3)
        + (IF isTenseMoment(game) THEN 16 ELSE 0)
        + 2 * Min(Len(ring), 5)

RECURSIVE LivePass_KeepLast(_, _, _, _)
LivePass_KeepLast(entries, history, i, acc) ==
    IF i > Len(entries) THEN acc
    ELSE LET game == entries[i].game
         IN  IF game.status # "in_progress"
             THEN LivePass_KeepLast(entries, history, i + 1, acc)
             ELSE IF Excitement(game, history) >= acc.bestScore
                  THEN LivePass_KeepLast(entries, history, i + 1,
                                [best |-> {entries[i]},
                                 bestScore |-> Excitement(game, history)])
                  ELSE LivePass_KeepLast(entries, history, i + 1, acc)

\* The loop of findBestLiveGame from entry i on; acc holds best and bestScore
\* (in halves of a point).
RECURSIVE LivePass(_, _, _, _)
LivePass(entries, history, i, acc) ==
    IF i > Len(entries) THEN acc
    ELSE LET game == entries[i].game
         IN  IF game.status # "in_progress"
             THEN LivePass(entries, history, i + 1, acc)
             ELSE IF Excitement(game, history) > acc.bestScore
                  THEN LivePass(entries, history, i + 1,
                                [best |-> {entries[i]},
                                 bestScore |-> Excitement(game, history)])
                  ELSE LivePass(entries, history, i + 1, acc)

\* null is {}; a result is {[game, league]}
findBestLiveGame(games, history) ==
    LivePass(Entries(games), history, 1, [best |-> {}, bestScore |-> -2]).best

----------------------------------------------------------------------------
(* The signals of finished games *)

\* The margin bands of calcEntertainmentRating, in hundredths of a point
MarginBonus_NoTie(margin) ==
    IF margin = 0 THEN 0
    ELSE IF margin <= 2 THEN 250
    ELSE IF margin <= 5 THEN 150
    ELSE IF margin <= 10 THEN 50
    ELSE IF margin > 20 THEN -150
    ELSE 0

\* Variant: no penalty for a blowout.
MarginBonus_NoPenalty(margin) ==
    IF margin = 0 THEN 200
    ELSE IF margin <= 2 THEN 250
    ELSE IF margin <= 5 THEN 150
    ELSE IF margin <= 10 THEN 50
    ELSE 0

MarginBonus(margin) ==
    IF margin = 0 THEN 200
    ELSE IF margin <= 2 THEN 250
    ELSE IF margin <= 5 THEN 150
    ELSE IF margin <= 10 THEN 50
    ELSE IF margin > 20 THEN -150
    ELSE 0

\* The leader of a snapshot: home, away, or Null when level
LeadOf(snap, home, away) ==
    IF snap[home] > snap[away] THEN home
    ELSE IF snap[away] > snap[home] THEN away
    ELSE Null

\* Variant: a level snapshot clears prevLead.
RECURSIVE LeadChanges_TieResets(_, _, _, _, _, _)
LeadChanges_TieResets(history, home, away, i, prevLead, changes) ==
    IF i > Len(history) THEN changes
    ELSE LET lead == LeadOf(history[i], home, away)
         IN  LeadChanges_TieResets(history, home, away, i + 1, lead,
                         IF prevLead # Null /\ lead # Null /\ lead # prevLead
                         THEN changes + 1 ELSE changes)

\* The loop over the ring from snapshot i on: the number of lead changes, a
\* level snapshot leaving prevLead as it is
RECURSIVE LeadChanges(_, _, _, _, _, _)
LeadChanges(history, home, away, i, prevLead, changes) ==
    IF i > Len(history) THEN changes
    ELSE LET lead == LeadOf(history[i], home, away)
         IN  LeadChanges(history, home, away, i + 1,
                         IF lead # Null THEN lead ELSE prevLead,
                         IF prevLead # Null /\ lead # Null /\ lead # prevLead
                         THEN changes + 1 ELSE changes)

\* +rating.toFixed(1) on hundredths: the nearest tenth, as hundredths
ToFixed1(x) == ((x + 5) \div 10) * 10

\* Math.max(1, Math.min(10, x)) on hundredths
ClampRating_Open(x) == x

ClampRating(x) == Max(100, Min(1000, x))

\* null is {}; a rating is {r} with r in hundredths of a point
calcEntertainmentRating(game, history) ==
    IF game.status # "final" THEN {}
    ELSE LET homeScore == ScoreOrZero(game, game.home)
             awayScore == ScoreOrZero(game, game.away)
             margin == Abs(homeScore - awayScore)
             ring == IF Has(history, game.id) THEN history[game.id] ELSE <<>>
             leadBonus == IF Len(ring) >= 2
                          THEN Min(LeadChanges(ring, game.home, game.away, 1, Null, 0) * 80, 200)
                          ELSE 0
             otBonus == IF Has(game, "clock") /\ game.clock # <<>> /\ OvertimeText(game.clock)
                        THEN 150 ELSE 0
         IN  {ClampRating(ToFixed1(500 + MarginBonus(margin) + leadBonus + otBonus))}

\* teams[abbr]?.name ?? abbr
TeamName(teams, abbr) ==
    IF Has(teams, abbr) /\ Has(teams[abbr], "name") THEN teams[abbr].name ELSE abbr

\* e.type?.toLowerCase().includes(word), false without a type
TypeIncludes(e, word) == Has(e, "type") /\ Includes(ToLowerCase(e.type), word)

\* Array.prototype.filter
RECURSIVE Filter(_, _)
Filter(seq, keep) ==
    IF seq = <<>> THEN <<>>
    ELSE (IF Head(seq) \in keep THEN <<Head(seq)>> ELSE <<>>) \o Filter(Tail(seq), keep)

\* The verb of the sentence; margin is {} when it is NaN
RecapVerb(margin) ==
    IF margin = {0} THEN "drew"
    ELSE IF margin # {} /\ ValueOf(margin) <= 2 THEN "edged"
    ELSE IF margin # {} /\ ValueOf(margin) <= 6 THEN "beat"
    ELSE "defeated"

\* The closing clause of a soccer recap: {} or {[player, clock]}, clock being
\* {} or {text}
SealedBy(game, winner, margin) ==
    IF ~(Has(game, "events") /\ Len(game.events) > 0 /\ game.sport \in SOCCER_SLUGS) THEN {}
    ELSE LET events == game.events
             goals == Filter(events, {e \in Range(events) :
                                         /\ TypeIncludes(e, <<"g", "o", "a", "l">>)
                                         /\ ~TypeIncludes(e, <<"o", "w", "n">>)})
             winGoals == Filter(goals, {e \in Range(goals) :
                                           LET isHome == Has(e, "isHome") /\ e.isHome
                                           IN  \/ isHome /\ winner = game.home
                                               \/ ~isHome /\ winner = game.away})
         IN  IF winGoals = <<>> THEN {}
             ELSE LET last == winGoals[Len(winGoals)]
                  IN  IF Has(last, "player") /\ last.player # ""
                         /\ margin # {} /\ ValueOf(margin) <= 2
                      THEN {[player |-> last.player,
                             clock |-> IF Has(last, "clock") /\ last.clock # ""
                                       THEN {last.clock} ELSE {}]}
                      ELSE {}

\* ${score}: the decimal digits of a number, "undefined" for a missing one
ScoreText(opt) == IF opt = {} THEN "undefined" ELSE ToString(ValueOf(opt))

\* The sentence as the words the template strings put together (lines
\* 1458-1470); "-" stands for the en dash and "--" for the em dash
RecapLine(winName, verb, loseName, winScore, loseScore, isOT, sealed) ==
    (IF verb = "drew"
     THEN <<winName, "drew", ScoreText({winScore}), "-", ScoreText(loseScore), "with", loseName>>
     ELSE <<winName, verb, loseName, ScoreText({winScore}), "-", ScoreText(loseScore)>>)
    \o (IF isOT THEN <<"in extra time">> ELSE <<>>)
    \o (IF sealed = {} THEN <<>>
        ELSE <<"--", ValueOf(sealed).player, "sealed it">>
             \o (IF ValueOf(sealed).clock = {} THEN <<>>
                 ELSE <<"(", ValueOf(ValueOf(sealed).clock), "')">>))
    \o <<".">>

\* homeScore === 0 && awayScore === 0
BothZero_Either(homeScore, awayScore) == homeScore = 0 \/ awayScore = 0

BothZero(homeScore, awayScore) == homeScore = 0 /\ awayScore = 0

\* null is {}; a sentence is {[winName, verb, loseName, winScore, loseScore,
\* extraTime, sealedBy, line]}: the parts the template strings are built
\* from, and the line they make
generateRecap(game) ==
    IF game.status # "final" THEN {}
    ELSE LET home == game.home
             away == game.away
             homeScore == ScoreOrZero(game, home)
             awayScore == ScoreOrZero(game, away)
         IN  IF BothZero(homeScore, awayScore) THEN {}
             ELSE LET winner == IF homeScore >= awayScore THEN home ELSE away
                      loser == IF winner = home THEN away ELSE home
                      winScore == game.score[winner]
                      loseScore == Lookup(game.score, loser)
                      margin == IF loseScore = {} THEN {} ELSE {winScore - ValueOf(loseScore)}
                      isOT == Has(game, "clock") /\ game.clock # <<>> /\ OvertimeText(game.clock)
                  IN  {[winName |-> TeamName(game.teams, winner),
                        verb |-> RecapVerb(margin),
                        loseName |-> TeamName(game.teams, loser),
                        winScore |-> winScore,
                        loseScore |-> loseScore,
                        extraTime |-> isOT,
                        sealedBy |-> SealedBy(game, winner, margin),
                        line |-> RecapLine(TeamName(game.teams, winner), RecapVerb(margin),
                                           TeamName(game.teams, loser), winScore, loseScore,
                                           isOT, SealedBy(game, winner, margin))]}

----------------------------------------------------------------------------
(* The same append with the identity of the arrays: a ring is a reference    *)
(* into heap.arrays, scoreHistoryRef.current is heap.current, the object     *)
(* passed to setScoreHistory is heap.state, and heap.held is the scoreHistory *)
(* a rendered component tree was given, heap.heldVal recording what its      *)
(* arrays contained at that moment.                                          *)

EmptyHeap ==
    [arrays |-> <<>>, current |-> EmptyMap, state |-> EmptyMap,
     held |-> EmptyMap, heldVal |-> EmptyMap]

\* the arrays an object of references leads to
Deref(h, obj) == [id \in DOMAIN obj |-> h.arrays[obj[id]]]

\* Variant: prev.push(currentSnap), then shift() beyond the cap: the array
\* the ring already has is extended in place.
HeapAppendGame_Push(h, game) ==
    IF game.status = "in_progress" /\ Has(game, "score")
    THEN LET prev == IF Has(h.current, game.id) THEN h.arrays[h.current[game.id]] ELSE <<>>
             next == SliceLast(Append(prev, CurrentSnap(game)), HistoryCap)
         IN  IF ScoreChanged(prev, game)
             THEN IF Has(h.current, game.id)
                  THEN [h EXCEPT !.arrays[h.current[game.id]] = next]
                  ELSE [h EXCEPT !.arrays = Append(@, next),
                                 !.current = (game.id :> (Len(h.arrays) + 1)) @@ @]
             ELSE h
    ELSE h

\* The body of the loop for one game: [...prev, currentSnap].slice(-10) is a
\* new array, and the assignment makes the ring refer to it.
HeapAppendGame(h, game) ==
    IF game.status = "in_progress" /\ Has(game, "score")
    THEN LET prev == IF Has(h.current, game.id) THEN h.arrays[h.current[game.id]] ELSE <<>>
             next == SliceLast(Append(prev, CurrentSnap(game)), HistoryCap)
         IN  IF ScoreChanged(prev, game)
             THEN [h EXCEPT !.arrays = Append(@, next),
                            !.current = (game.id :> (Len(h.arrays) + 1)) @@ @]
             ELSE h
    ELSE h

RECURSIVE HeapAppendGames(_, _)
HeapAppendGames(h, games) ==
    IF games = <<>> THEN h
    ELSE HeapAppendGames(HeapAppendGame(h, Head(games)), Tail(games))

RECURSIVE HeapAppendResults(_, _, _)
HeapAppendResults(h, gameMap, i) ==
    IF i > Len(ALL_LEAGUE_IDS) THEN h
    ELSE IF Has(gameMap, ALL_LEAGUE_IDS[i])
         THEN HeapAppendResults(HeapAppendGames(h, gameMap[ALL_LEAGUE_IDS[i]]), gameMap, i + 1)
         ELSE HeapAppendResults(h, gameMap, i + 1)

\* setScoreHistory({ ...scoreHistoryRef.current }): a new object that refers
\* to the same arrays
SyncState(h) == [h EXCEPT !.state = ShallowCopy(h.current)]

----------------------------------------------------------------------------
(* The poll orchestrator *)

Pending == [l \in LeagueSet |-> "pending"]

Fulfilled(run) == {l \in LeagueSet : run.res[l] = "fulfilled"}

AllSettled(run) == \A l \in LeagueSet : run.res[l] # "pending"

\* The maps a run can build from the responses of its fulfilled fetches.
GameMaps(leagues, feed) ==
    {gm \in [leagues -> UNION {feed[l] : l \in leagues}] :
        \A l \in leagues : gm[l] \in feed[l]}

\* fetchAll up to its await: setLoading(true), setError(null), one fetch per
\* league (lines 2727-2735).
BeginFetchAll(trigger) ==
    /\ loading' = TRUE
    /\ error' = Null
    /\ started' = started + 1
    /\ runs' = ((started + 1) :> [trigger |-> trigger, res |-> Pending]) @@ runs
    /\ UNCHANGED <<allGames, scoreHistoryRef, scoreHistory, ticksDone,
                   appendCount, heap, args, result>>

\* useEffect on mount: fetchAll() and setInterval(fetchAll, REFRESH_INTERVAL)
Mount ==
    /\ started = 0
    /\ BeginFetchAll("mount")

\* The interval fires: fetchAll, whatever is in flight.
TimerFires(maxTicks, maxInFlight) ==
    /\ started > 0
    /\ started < maxTicks
    /\ Cardinality(DOMAIN runs) < maxInFlight
    /\ BeginFetchAll("timer")

\* Variant: the button is never disabled.
RefreshClick_Enabled(maxTicks, maxInFlight) ==
    /\ started > 0
    /\ started < maxTicks
    /\ Cardinality(DOMAIN runs) < maxInFlight
    /\ BeginFetchAll("button")

\* The refresh button: onClick={fetchAll} disabled={loading}
RefreshClick(maxTicks, maxInFlight) ==
    /\ started > 0
    /\ started < maxTicks
    /\ Cardinality(DOMAIN runs) < maxInFlight
    /\ ~loading
    /\ BeginFetchAll("button")

\* fetchLeague of one run settles: fulfilled with { slug, games } or rejected
\* (network error, or !response.ok).
SettleFetch(t, slug, outcome) ==
    /\ t \in DOMAIN runs
    /\ runs[t].res[slug] = "pending"
    /\ runs' = [runs EXCEPT ![t].res[slug] = outcome]
    /\ UNCHANGED <<allGames, loading, error, scoreHistoryRef, scoreHistory,
                   started, ticksDone, appendCount, heap, args, result>>

\* fetchAll after its await (lines 2737-2777), one synchronous block: the
\* appends, the error of a tick with no fulfilled fetch, the state updates
\* and the finally.  The response bodies are read here for the first time,
\* so they are drawn here.  A well-formed feed (arrays of records) raises no
\* exception in the block, so the catch is not taken.  The state updates of
\* the block are committed together (batched).
CompleteFetchAll(t, feed) ==
    /\ t \in DOMAIN runs
    /\ AllSettled(runs[t])
    /\ \E gameMap \in GameMaps(Fulfilled(runs[t]), feed) :
          /\ scoreHistoryRef' = AppendResults(scoreHistoryRef, gameMap, 1)
          /\ error' = IF DOMAIN gameMap = {} THEN ErrUnavailable ELSE error
          /\ allGames' = gameMap
    /\ scoreHistory' = ShallowCopy(scoreHistoryRef')
    /\ loading' = FALSE
    /\ runs' = Without(runs, t)
    /\ ticksDone' = ticksDone + 1
    /\ appendCount' = CountAppends(appendCount, scoreHistoryRef, scoreHistoryRef')
    /\ UNCHANGED <<started, heap, args, result>>

----------------------------------------------------------------------------
(* Specifications *)

NoArgs == [fn |-> "none"]
NoResult == [fn |-> "none"]

AppInit ==
    /\ allGames = EmptyMap
    /\ loading = FALSE
    /\ error = Null
    /\ scoreHistoryRef = EmptyMap
    /\ scoreHistory = EmptyMap
    /\ runs = EmptyMap
    /\ started = 0
    /\ ticksDone = 0
    /\ appendCount = EmptyMap
    /\ heap = EmptyHeap

Init ==
    /\ AppInit
    /\ args = NoArgs
    /\ result = NoResult

Next ==
    \/ Mount
    \/ TimerFires(MaxTicks, MaxInFlight)
    \/ RefreshClick(MaxTicks, MaxInFlight)
    \/ \E t \in 1..MaxTicks, slug \in LeagueSet, outcome \in {"fulfilled", "rejected"} :
          SettleFetch(t, slug, outcome)
    \/ \E t \in 1..MaxTicks : CompleteFetchAll(t, Feed)

\* The dashboard with overlapping ticks.
Spec == Init /\ [][Next]_vars

RingNext ==
    \/ Mount
    \/ TimerFires(RingTicks, 1)
    \/ RefreshClick(RingTicks, 1)
    \/ \E t \in 1..RingTicks, slug \in LeagueSet, outcome \in {"fulfilled", "rejected"} :
          SettleFetch(t, slug, outcome)
    \/ \E t \in 1..RingTicks : CompleteFetchAll(t, RingFeed)

\* The dashboard over many ticks that never overlap: the rings fill up.
RingSpec == Init /\ [][RingNext]_vars

----------------------------------------------------------------------------
(* Direct calls of the signal calculators on any small ring *)

Snapshots == {Score("H", h, "A", a) @@ ("clock" :> Null) : h, a \in 0..MaxScore}

Rings == UNION {[1..n -> Snapshots] : n \in 0..MaxHistLen}

\* A history store that holds a ring for G1 or none, read for G1 or for G2
\* (which never has a ring).
SignalArgs ==
    {[fn |-> "signal", scoreHistory |-> sh, gameId |-> id, home |-> "H", away |-> "A"] :
        sh \in {EmptyMap} \cup {("G1" :> r) : r \in Rings}, id \in {"G1", "G2"}}

SignalInit ==
    /\ AppInit
    /\ args \in SignalArgs
    /\ result = NoResult

\* GameCard, line 2208
CallGetMomentum ==
    /\ result.fn = "none"
    /\ result' = [fn |-> "getMomentum",
                  val |-> getMomentum(args.scoreHistory, args.gameId, args.home, args.away)]
    /\ UNCHANGED <<appVars, args>>

\* GameCard, line 2210
CallGetScoreDelta ==
    /\ result.fn = "none"
    /\ result' = [fn |-> "getScoreDelta",
                  val |-> getScoreDelta(Lookup(args.scoreHistory, args.gameId),
                                        args.home, args.away)]
    /\ UNCHANGED <<appVars, args>>

SignalNext ==
    \/ CallGetMomentum
    \/ CallGetScoreDelta

SignalSpec == SignalInit /\ [][SignalNext]_vars

----------------------------------------------------------------------------
(* Direct calls of the betting signals *)

\* Percentages a win probability can carry in the model: the far ends, the
\* values around a gap of 15, and the pairs 60/48 and 80/20.
Pcts == {0, 20, 34, 35, 48, 50, 60, 65, 66, 80}

\* win_probability objects: any of the home, away and draw keys may be missing
WinProbs(home, away, pcts) ==
    UNION {[keys -> pcts] : keys \in SUBSET {home, away, "draw"}}

\* A scheduled game seen by GameCard, with or without a win_probability.
UpsetArgs ==
    {[fn |-> "upset", home |-> "H", away |-> "A"]}
    \cup {[fn |-> "upset", home |-> "H", away |-> "A", win_probability |-> wp] :
             wp \in WinProbs("H", "A", Pcts)}

\* GameCard, line 2207
CallIsUpsetAlert ==
    /\ args.fn = "upset"
    /\ result.fn = "none"
    /\ result' = [fn |-> "isUpsetAlert",
                  val |-> isUpsetAlert(Lookup(args, "win_probability"), args.home, args.away)]
    /\ UNCHANGED <<appVars, args>>

\* spread.favorite texts: a favorite by 14, one by 3.5, a pick'em without a
\* number, and a line of zero
FavH14 == <<"H", " ", "-", "1", "4">>
FavA35 == <<"A", " ", "-", "3", ".", "5">>
FavEven == <<"E", "V", "E", "N">>
FavZero == <<"H", " ", "-", "0">>

\* What the feed can say about one game before the ranker: its status, its
\* win probability (none, 70/30, 30/70, 50/50, the away side alone at 80) and
\* its spread (none, no favorite, one of the texts above).
BetGames(id, sport, home, away) ==
    LET base == [id |-> id, sport |-> sport, home |-> home, away |-> away]
        sched == base @@ [status |-> "scheduled"]
    IN  { sched,
          sched @@ [win_probability |-> Score(home, 70, away, 30)],
          sched @@ [win_probability |-> Score(home, 30, away, 70)],
          sched @@ [win_probability |-> Score(home, 50, away, 50)],
          sched @@ [win_probability |-> (away :> 80)],
          sched @@ [spread |-> [favorite |-> FavH14]],
          sched @@ [spread |-> [favorite |-> FavA35]],
          sched @@ [spread |-> [favorite |-> FavEven]],
          sched @@ [spread |-> [favorite |-> FavZero]],
          sched @@ [spread |-> [overUnder |-> "210.5"]],
          sched @@ [win_probability |-> Score(home, 70, away, 30),
                    spread |-> [favorite |-> FavH14]],
          base @@ [status |-> "in_progress", score |-> Score(home, 1, away, 0),
                   win_probability |-> Score(home, 100, away, 0),
                   spread |-> [favorite |-> FavH14]],
          base @@ [status |-> "final", score |-> Score(home, 2, away, 1)] }

\* Game sets as fetchAll builds them: a league is missing (its fetch
\* failed) or holds up to two games (nba) or one (mls).
BetArgs ==
    {[fn |-> "bet", allGames |-> gm] :
        gm \in UNION {
            {n @@ m : n \in {EmptyMap}
                         \cup {("nba" :> <<>>)}
                         \cup {("nba" :> <<g>>) : g \in BetGames("B1", "nba", "H", "A")}
                         \cup {("nba" :> <<g, h>>) :
                                  g \in BetGames("B1", "nba", "H", "A"),
                                  h \in BetGames("B2", "nba", "C", "D")}}
            : m \in {EmptyMap}
                    \cup {("mls" :> <<>>)}
                    \cup {("mls" :> <<g>>) : g \in BetGames("M1", "mls", "X", "Y")}}}

BetInit ==
    /\ AppInit
    /\ args \in UpsetArgs \cup BetArgs
    /\ result = NoResult

\* App, line 2793
CallFindBestBet ==
    /\ args.fn = "bet"
    /\ result.fn = "none"
    /\ result' = [fn |-> "findBestBet", val |-> findBestBet(args.allGames)]
    /\ UNCHANGED <<appVars, args>>

BetNext ==
    \/ CallIsUpsetAlert
    \/ CallFindBestBet

BetSpec == BetInit /\ [][BetNext]_vars

----------------------------------------------------------------------------
(* Direct calls of the live signals *)

\* clock texts: "Q2 5:00", "4th 2:00", "3rd 1:00", "OT 3:00", "45'", "85'",
\* "105'" and "90+3'"
ClockQ2 == <<"Q", "2", " ", "5", ":", "0", "0">>
Clock4th == <<"4", "t", "h", " ", "2", ":", "0", "0">>
Clock3rd == <<"3", "r", "d", " ", "1", ":", "0", "0">>
ClockOT == <<"O", "T", " ", "3", ":", "0", "0">>
Clock45 == <<"4", "5", "'">>
Clock85 == <<"8", "5", "'">>
Clock105 == <<"1", "0", "5", "'">>
ClockStoppage == <<"9", "0", "+", "3", "'">>

LiveClocks ==
    {ClockQ2, Clock4th, Clock3rd, ClockOT, Clock45, Clock85, Clock105, ClockStoppage}

\* One game seen by GameCard: any sport of the threshold table, a soccer
\* league or an unlisted sport; no score, a partial one, or margins around
\* the thresholds; no clock or one of the texts above.
TenseArgs ==
    {[fn |-> "tense", game |-> g] :
        g \in UNION {
            { [id |-> "G1", sport |-> sp, home |-> "H", away |-> "A", status |-> st] @@ sc @@ ck :
                 sc \in {EmptyMap, [score |-> ("H" :> 4)]}
                        \cup {[score |-> Score("H", h, "A", 0)] : h \in {0, 1, 2, 5, 6, 8, 9}},
                 ck \in {EmptyMap} \cup {[clock |-> c] : c \in LiveClocks} }
            : sp \in {"nba", "nfl", "nhl", "mlb", "mls", "cricket"},
              st \in {"in_progress", "scheduled"} }}

\* What the feed can say about one game before the live ranker
LiveGames(id, sport, home, away) ==
    LET base == [id |-> id, sport |-> sport, home |-> home, away |-> away]
        live == base @@ [status |-> "in_progress"]
    IN  { base @@ [status |-> "scheduled"],
          base @@ [status |-> "final", score |-> Score(home, 2, away, 1)],
          live @@ [clock |-> Clock4th],
          live @@ [score |-> Score(home, 0, away, 0), clock |-> ClockQ2],
          live @@ [score |-> Score(home, 0, away, 0), clock |-> Clock4th],
          live @@ [score |-> Score(home, 1, away, 0), clock |-> Clock85],
          live @@ [score |-> Score(home, 0, away, 6), clock |-> Clock4th],
          live @@ [score |-> Score(home, 12, away, 0), clock |-> Clock4th],
          live @@ [score |-> (home :> 4)],
          live @@ [score |-> Score(home, 2, away, 0), clock |-> Clock3rd] }

\* a ring of n snapshots; the ranker reads only its length
RingOfLength(n) == [i \in 1..n |-> Score("H", i, "A", 0) @@ ("clock" :> Null)]

\* History stores: each game has no ring or one of 2 or 6 snapshots
LiveHistories ==
    {b1 @@ b2 @@ m1 :
        b1 \in {EmptyMap} \cup {("B1" :> RingOfLength(n)) : n \in {2, 6}},
        b2 \in {EmptyMap} \cup {("B2" :> RingOfLength(n)) : n \in {2, 6}},
        m1 \in {EmptyMap} \cup {("M1" :> RingOfLength(n)) : n \in {2, 6}}}

LiveArgs ==
    {[fn |-> "live", allGames |-> gm, scoreHistory |-> sh] :
        gm \in UNION {
            {n @@ m : n \in {EmptyMap}
                         \cup {("nba" :> <<>>)}
                         \cup {("nba" :> <<g>>) : g \in LiveGames("B1", "nba", "H", "A")}
                         \cup {("nba" :> <<g, h>>) :
                                  g \in LiveGames("B1", "nba", "H", "A"),
                                  h \in LiveGames("B2", "nba", "C", "D")}}
            : m \in {EmptyMap}
                    \cup {("mls" :> <<>>)}
                    \cup {("mls" :> <<g>>) : g \in LiveGames("M1", "mls", "X", "Y")}},
        sh \in LiveHistories}

LiveInit ==
    /\ AppInit
    /\ args \in TenseArgs \cup LiveArgs
    /\ result = NoResult

\* GameCard, line 2209
CallIsTenseMoment ==
    /\ args.fn = "tense"
    /\ result.fn = "none"
    /\ result' = [fn |-> "isTenseMoment",
                  val |-> args.game.status = "in_progress" /\ isTenseMoment(args.game)]
    /\ UNCHANGED <<appVars, args>>

\* App, line 2794
CallFindBestLiveGame ==
    /\ args.fn = "live"
    /\ result.fn = "none"
    /\ result' = [fn |-> "findBestLiveGame",
                  val |-> findBestLiveGame(args.allGames, args.scoreHistory)]
    /\ UNCHANGED <<appVars, args>>

LiveNext ==
    \/ CallIsTenseMoment
    \/ CallFindBestLiveGame

LiveSpec == LiveInit /\ [][LiveNext]_vars

----------------------------------------------------------------------------
(* Direct calls of the signals of finished games *)

\* clock texts of a finished game: "", "Final", "Final/OT" and "FT (Pens)"
ClockFinal == <<"F", "i", "n", "a", "l">>
ClockFinalOT == <<"F", "i", "n", "a", "l", "/", "O", "T">>
ClockPens == <<"F", "T", " ", "(", "P", "e", "n", "s", ")">>

FinalClocks == {<<>>, ClockFinal, ClockFinalOT, ClockPens}

\* score objects: none, one side alone, a level score and margins on both
\* sides of every band (2, 5, 6, 10, 20)
FinalScores ==
    {EmptyMap, [score |-> ("H" :> 4)], [score |-> ("A" :> 3)], [score |-> ("H" :> 0)],
     [score |-> ("H" :> 1)]}
    \cup {[score |-> Score("H", p[1], "A", p[2])] :
             p \in {<<0, 0>>, <<3, 3>>, <<1, 0>>, <<0, 2>>, <<3, 0>>, <<5, 0>>, <<0, 6>>,
                    <<7, 0>>, <<10, 0>>, <<11, 0>>, <<20, 0>>, <<0, 21>>}}

\* team directories: both names, none, and an entry without a name
TeamMaps ==
    { ("H" :> [name |-> "Hawks"]) @@ ("A" :> [name |-> "Aces"]),
      EmptyMap,
      ("H" :> [logo |-> "h.png"]) }

TypeGoal == <<"G", "o", "a", "l">>
TypeOwnGoal == <<"O", "w", "n", " ", "G", "o", "a", "l">>
TypeCard == <<"Y", "e", "l", "l", "o", "w", " ", "C", "a", "r", "d">>

\* event logs: none, an empty one, and goals, own goals and cards of both
\* sides, with or without a player, a clock or a type
EventLogs ==
    LET goalH == [type |-> TypeGoal, isHome |-> TRUE, player |-> "Messi", clock |-> "88"]
        goalA == [type |-> TypeGoal, isHome |-> FALSE, player |-> "Kane"]
        ownH == [type |-> TypeOwnGoal, isHome |-> TRUE, player |-> "Ramos", clock |-> "30"]
        card == [type |-> TypeCard, isHome |-> TRUE, player |-> "Pepe", clock |-> "10"]
        anon == [type |-> TypeGoal, isHome |-> TRUE]
        untyped == [isHome |-> FALSE, player |-> "Silva"]
    IN  {EmptyMap, [events |-> <<>>]}
        \cup {[events |-> log] :
                 log \in {<<goalH>>, <<goalH, goalA>>, <<goalA, ownH, card>>,
                          <<goalH, anon>>, <<untyped, card>>}}

\* One game seen by ExpandedSection, in any status
FinalGames ==
    UNION {
        { [id |-> "G1", sport |-> sp, home |-> "H", away |-> "A", status |-> st, teams |-> tm]
            @@ sc @@ ck @@ ev :
             sc \in FinalScores,
             ck \in {EmptyMap} \cup {[clock |-> c] : c \in FinalClocks},
             ev \in EventLogs }
        : sp \in {"nba", "mls"},
          st \in {"scheduled", "in_progress", "final", "closed"},
          tm \in TeamMaps }

\* snapshots by leader: home ahead, away ahead, level
LeadSnaps ==
    {Score("H", p[1], "A", p[2]) @@ ("clock" :> Null) : p \in {<<1, 0>>, <<0, 1>>, <<1, 1>>}}

\* Three lead changes take four snapshots.
RatingHistLen == MaxHistLen + 1

\* rings as the history store keeps them: no two neighbours with the same score
LeadRings ==
    {r \in UNION {[1..n -> LeadSnaps] : n \in 0..RatingHistLen} :
        \A i \in 1..(Len(r) - 1) : r[i] # r[i + 1]}

RecapArgs == {[fn |-> "recap", game |-> g] : g \in FinalGames}

\* the ring of another game, with a lead change of its own
OtherRing ==
    <<Score("X", 1, "Y", 0) @@ ("clock" :> Null), Score("X", 1, "Y", 2) @@ ("clock" :> Null)>>

\* The rating reads no team directory and no event log.  The history store
\* holds no ring, the ring of the game, or that ring and the ring of another
\* game.
RatingArgs ==
    {[fn |-> "rating", game |-> g, scoreHistory |-> sh] :
        g \in {x \in FinalGames : x.teams = EmptyMap /\ ~Has(x, "events") /\ x.sport = "nba"},
        sh \in {EmptyMap}
               \cup {("G1" :> r) : r \in LeadRings}
               \cup {("G1" :> r) @@ ("G2" :> OtherRing) : r \in LeadRings}}

FinalInit ==
    /\ AppInit
    /\ args \in RecapArgs \cup RatingArgs
    /\ result = NoResult

\* ExpandedSection, line 1694
CallGenerateRecap ==
    /\ args.fn = "recap"
    /\ result.fn = "none"
    /\ result' = [fn |-> "generateRecap", val |-> generateRecap(args.game)]
    /\ UNCHANGED <<appVars, args>>

\* ExpandedSection, line 1695
CallCalcEntertainmentRating ==
    /\ args.fn = "rating"
    /\ result.fn = "none"
    /\ result' = [fn |-> "calcEntertainmentRating",
                  val |-> calcEntertainmentRating(args.game, args.scoreHistory)]
    /\ UNCHANGED <<appVars, args>>

FinalNext ==
    \/ CallGenerateRecap
    \/ CallCalcEntertainmentRating

FinalSpec == FinalInit /\ [][FinalNext]_vars

----------------------------------------------------------------------------
(* Overlapping ticks over a feed whose scores only grow *)

\* The response bodies of tick t: the server answers the requests in the
\* order in which they were sent, and every score has grown since the tick
\* before.
TickFeed ==
    [t \in 1..MaxTicks |->
        [slug \in {"nba", "mls"} |->
            IF slug = "nba"
            THEN {<<LiveGame("G1", "nba", "H", "A", 10 + 2 * t, 8, "Q3 5:00")>>}
            ELSE {<<LiveGame("G2", "mls", "X", "Y", t, 0, "70'")>>}]]

RaceNext ==
    \/ Mount
    \/ TimerFires(MaxTicks, MaxInFlight)
    \/ RefreshClick(MaxTicks, MaxInFlight)
    \/ \E t \in 1..MaxTicks, slug \in LeagueSet, outcome \in {"fulfilled", "rejected"} :
          SettleFetch(t, slug, outcome)
    \/ \E t \in 1..MaxTicks : CompleteFetchAll(t, TickFeed[t])

RaceSpec == Init /\ [][RaceNext]_vars

----------------------------------------------------------------------------
(* Sequential ticks over games of every status, with the arrays of the     *)
(* rings followed by reference and the render that reads them              *)

\* The response bodies: G1 scheduled, live without a score, live at 10-8 and
\* at 12-8, final and closed; G2 absent or live.
StoreFeed ==
  [slug \in {"nba", "mls"} |->
    IF slug = "nba"
    THEN LET g1 == [id |-> "G1", sport |-> "nba", home |-> "H", away |-> "A",
                    teams |-> ("H" :> [name |-> "Hawks"]) @@ ("A" :> [name |-> "Aces"])]
         IN  { <<g1 @@ [status |-> "scheduled", win_probability |-> Score("H", 60, "A", 48)]>>,
               <<g1 @@ [status |-> "in_progress", clock |-> ClockQ2]>>,
               <<g1 @@ [status |-> "in_progress", score |-> Score("H", 10, "A", 8),
                        clock |-> ClockQ2]>>,
               <<g1 @@ [status |-> "in_progress", score |-> Score("H", 12, "A", 8),
                        clock |-> Clock4th]>>,
               <<g1 @@ [status |-> "final", score |-> Score("H", 14, "A", 8),
                        clock |-> ClockFinal]>>,
               <<g1 @@ [status |-> "closed", score |-> Score("H", 14, "A", 8)]>> }
    ELSE { <<>>,
           <<[id |-> "G2", sport |-> "mls", home |-> "X", away |-> "Y",
              teams |-> EmptyMap, status |-> "in_progress",
              score |-> Score("X", 1, "Y", 0), clock |-> Clock85]>> }]

\* fetchAll after its await, as CompleteFetchAll, with the arrays followed by
\* reference
HeapCompleteFetchAll(t, feed) ==
    /\ t \in DOMAIN runs
    /\ AllSettled(runs[t])
    /\ \E gameMap \in GameMaps(Fulfilled(runs[t]), feed) :
          /\ scoreHistoryRef' = AppendResults(scoreHistoryRef, gameMap, 1)
          /\ heap' = SyncState(HeapAppendResults(heap, gameMap, 1))
          /\ error' = IF DOMAIN gameMap = {} THEN ErrUnavailable ELSE error
          /\ allGames' = gameMap
    /\ scoreHistory' = ShallowCopy(scoreHistoryRef')
    /\ loading' = FALSE
    /\ runs' = Without(runs, t)
    /\ ticksDone' = ticksDone + 1
    /\ appendCount' = CountAppends(appendCount, scoreHistoryRef, scoreHistoryRef')
    /\ UNCHANGED <<started, args, result>>

\* What GameCard and ExpandedSection compute for one game (lines 2204-2210
\* and 1694-1695)
Card(game, history) ==
    LET isScheduled == game.status = "scheduled"
        isLive == game.status = "in_progress"
    IN  [id |-> game.id,
         showUpsetAlert |-> isScheduled
                            /\ isUpsetAlert(Lookup(game, "win_probability"), game.home, game.away),
         onARun |-> IF isLive THEN getMomentum(history, game.id, game.home, game.away)
                    ELSE Null,
         tense |-> isLive /\ isTenseMoment(game),
         scoreDelta |-> IF isLive
                        THEN getScoreDelta(Lookup(history, game.id), game.home, game.away)
                        ELSE {},
         recap |-> generateRecap(game),
         rating |-> calcEntertainmentRating(game, history)]

\* A render of App: the rankers and every card are evaluated on the game set
\* and on the scoreHistory state, which the component tree keeps until the
\* next render.
Render ==
    /\ started > 0
    /\ heap' = [heap EXCEPT !.held = heap.state, !.heldVal = Deref(heap, heap.state)]
    /\ result' = [fn |-> "render",
                  bestBet |-> findBestBet(allGames),
                  bestLive |-> findBestLiveGame(allGames, scoreHistory),
                  cards |-> [i \in 1..Len(Entries(allGames)) |->
                                Card(Entries(allGames)[i].game, scoreHistory)]]
    /\ UNCHANGED <<allGames, loading, error, scoreHistoryRef, scoreHistory, runs,
                   started, ticksDone, appendCount, args>>

StoreNext ==
    \/ Mount
    \/ TimerFires(MaxTicks, 1)
    \/ RefreshClick(MaxTicks, 1)
    \/ \E t \in 1..MaxTicks, slug \in LeagueSet, outcome \in {"fulfilled", "rejected"} :
          SettleFetch(t, slug, outcome)
    \/ \E t \in 1..MaxTicks : HeapCompleteFetchAll(t, StoreFeed)
    \/ Render

StoreSpec == Init /\ [][StoreNext]_vars

TypeOK ==
    /\ loading \in BOOLEAN
    /\ error \in {Null, ErrUnavailable}
    /\ DOMAIN allGames \subseteq LeagueSet
    /\ DOMAIN scoreHistoryRef \subseteq {"G1", "G2"}
    /\ started \in 0..RingTicks

----------------------------------------------------------------------------
(* Properties *)

LiveScored(g) == g.status = "in_progress" /\ Has(g, "score")

\* every game record of a game set
GamesOf(gameMap) ==
    UNION {{gameMap[l][i] : i \in 1..Len(gameMap[l])} : l \in DOMAIN gameMap}

RingOf(hist, id) == IF Has(hist, id) THEN hist[id] ELSE <<>>

LastOf(ring) == ring[Len(ring)]

SameScore(snap, g) ==
    /\ snap[g.home] = g.score[g.home]
    /\ snap[g.away] = g.score[g.away]

SnapOf(g) ==
    [k \in {g.home, g.away, "clock"} |-> IF k = "clock" THEN g.clock ELSE g.score[k]]

\* the step completes a fetchAll run
TickCompletes == ticksDone' = ticksDone + 1

\* the runs that complete in the step
Completing == (DOMAIN runs) \ (DOMAIN runs')

\* C1: every history ring holds at most 10 snapshots, and never more
\* snapshots than fetchAll runs have completed.
C1_RingBounded ==
    \A id \in DOMAIN scoreHistoryRef :
        /\ Len(scoreHistoryRef[id]) <= 10
        /\ Len(scoreHistoryRef[id]) <= ticksDone

C1_Witness ==
    \E id \in DOMAIN scoreHistoryRef :
        /\ Len(scoreHistoryRef[id]) = 10
        /\ appendCount[id] = 12
        /\ ticksDone = 12

C2_DedupStep ==
    \A g \in GamesOf(allGames') :
        (/\ LiveScored(g)
         /\ RingOf(scoreHistoryRef, g.id) # <<>>
         /\ SameScore(LastOf(RingOf(scoreHistoryRef, g.id)), g))
        => Lookup(scoreHistoryRef', g.id) = Lookup(scoreHistoryRef, g.id)

C2_NoAdjacentDup ==
    \A id \in DOMAIN scoreHistoryRef :
        \A i \in 1..(Len(scoreHistoryRef[id]) - 1) :
            \E k \in (DOMAIN scoreHistoryRef[id][i]) \ {"clock"} :
                scoreHistoryRef[id][i][k] # scoreHistoryRef[id][i + 1][k]

\* C2: a tick that reports a game with the scores of the last snapshot of
\* its ring leaves the ring as it is, whatever the clock text; so no two
\* adjacent snapshots of a ring carry the same home and away scores.
C2_Dedup ==
    /\ [][TickCompletes => C2_DedupStep]_vars
    /\ []C2_NoAdjacentDup

\* a tick has just reported the score of the last snapshot under another clock
C2_Witness ==
    \E g \in GamesOf(allGames) :
        /\ LiveScored(g)
        /\ RingOf(scoreHistoryRef, g.id) # <<>>
        /\ SameScore(LastOf(scoreHistoryRef[g.id]), g)
        /\ LastOf(scoreHistoryRef[g.id])["clock"] # g.clock
        /\ Len(scoreHistoryRef[g.id]) >= 2

C3_FifoStep ==
    \A g \in GamesOf(allGames') :
        LET old == RingOf(scoreHistoryRef, g.id)
        IN  (/\ LiveScored(g)
             /\ Len(old) <= 10
             /\ (old = <<>> \/ ~SameScore(LastOf(old), g)))
            => /\ Has(scoreHistoryRef', g.id)
               /\ scoreHistoryRef'[g.id] =
                     IF Len(old) = 10
                     THEN SubSeq(old, 2, 10) \o <<SnapOf(g)>>
                     ELSE old \o <<SnapOf(g)>>

C4_TotalFailureKeepsGames ==
    [][\A t \in Completing :
          Fulfilled(runs[t]) = {}
          => /\ error' = ErrUnavailable
             /\ allGames' = allGames]_vars

Partial(run) == Fulfilled(run) # {} /\ Fulfilled(run) # LeagueSet

\* the completing run stored the games of its fulfilled fetches and appended
\* their live games; nothing else in the history store changed
C5_Stored(t) ==
    LET live == {g \in GamesOf(allGames') : LiveScored(g)}
    IN  /\ DOMAIN allGames' = Fulfilled(runs[t])
        /\ \A g \in live :
              LET old == RingOf(scoreHistoryRef, g.id)
              IN  /\ Has(scoreHistoryRef', g.id)
                  /\ SameScore(LastOf(scoreHistoryRef'[g.id]), g)
                  /\ Len(old) < 10
                     => scoreHistoryRef'[g.id] \in {old, old \o <<SnapOf(g)>>}
        /\ \A id \in DOMAIN scoreHistoryRef' :
              id \notin {g.id : g \in live}
              => Lookup(scoreHistoryRef, id) = Lookup(scoreHistoryRef', id)

\* C5 as stated: a tick with some failed and some fulfilled fetches stores
\* and appends the fulfilled leagues' games, and the error is null after it.
C5_PartialFailureErrorNull ==
    [][\A t \in Completing :
          Partial(runs[t]) => C5_Stored(t) /\ error' = Null]_vars

\* C5 amended: such a tick stores and appends the fulfilled leagues' games
\* and does not itself set the error: its completion leaves the error as it
\* found it.
C5_PartialFailureIsolated ==
    [][\A t \in Completing :
          Partial(runs[t]) => C5_Stored(t) /\ error' = error]_vars

\* a tick whose first fetch failed has stored and appended the second
\* league's live game, under the error left by an overlapping failed tick
C5_Witness ==
    /\ DOMAIN allGames = {"mls"}
    /\ \E g \in GamesOf(allGames) : LiveScored(g) /\ Has(scoreHistoryRef, g.id)
    /\ error = ErrUnavailable

C6_AppendAfterSettle ==
    scoreHistoryRef' # scoreHistoryRef
    => \E t \in Completing : AllSettled(runs[t])

C6_Consistent ==
    /\ scoreHistory = scoreHistoryRef
    /\ \A g \in GamesOf(allGames) :
          LiveScored(g)
          => /\ Has(scoreHistory, g.id)
             /\ SameScore(LastOf(scoreHistory[g.id]), g)

\* C6: the rings change only in the step that completes a run whose fetches
\* have all settled, and the game set and the history the rankers and
\* calculators read always come from the same completed tick: the history
\* is the fully updated store, and it ends with the score of every live game
\* of the game set.
C6_PhaseOrder ==
    /\ [][C6_AppendAfterSettle]_vars
    /\ []C6_Consistent

\* a later tick is half settled while the state of a completed tick is shown
C6_Witness ==
    /\ \E t \in DOMAIN runs :
          /\ \E l \in LeagueSet : runs[t].res[l] = "fulfilled"
          /\ \E l \in LeagueSet : runs[t].res[l] = "pending"
    /\ \E g \in GamesOf(allGames) :
          LiveScored(g) /\ Len(RingOf(scoreHistory, g.id)) >= 2

\* C7 as stated: at most one fetchAll run is in flight.
C7_AtMostOneInFlight == Cardinality(DOMAIN runs) <= 1

\* C7 amended: runs may overlap (the timer starts a run whatever is in
\* flight); only the button is guarded, by the loading flag; the rings are
\* still updated by one run at a time, each change of the rings being the
\* completion step of exactly one run.
C7_Serialized ==
    [][/\ \A t \in (DOMAIN runs') \ (DOMAIN runs) :
             runs'[t].trigger = "button" => ~loading
       /\ scoreHistoryRef' # scoreHistoryRef
          => Cardinality(Completing) = 1 /\ DOMAIN runs' \subseteq DOMAIN runs]_vars

\* a run started from the button is in flight together with another run
C7_Witness ==
    /\ Cardinality(DOMAIN runs) >= 2
    /\ \E t \in DOMAIN runs : runs[t].trigger = "button"

ReportsG1(gameMap, h, a) ==
    \E g \in GamesOf(gameMap) :
        /\ g.id = "G1" /\ g.home = "H" /\ g.away = "A"
        /\ LiveScored(g)
        /\ g.score["H"] = h /\ g.score["A"] = a

\* C8: from the empty store, a first tick reporting G1 at H 10, A 8 and a
\* second tick reporting it at H 12, A 8 leave a ring of exactly the two
\* snapshots in tick order, and getMomentum names H.
C8_EndToEnd ==
    [][(/\ ticksDone = 1 /\ ReportsG1(allGames, 10, 8)
        /\ ticksDone' = 2 /\ ReportsG1(allGames', 12, 8))
       => /\ Has(scoreHistoryRef', "G1")
          /\ Len(scoreHistoryRef'["G1"]) = 2
          /\ scoreHistoryRef'["G1"][1]["H"] = 10 /\ scoreHistoryRef'["G1"][1]["A"] = 8
          /\ scoreHistoryRef'["G1"][2]["H"] = 12 /\ scoreHistoryRef'["G1"][2]["A"] = 8
          /\ getMomentum(scoreHistory', "G1", "H", "A") = "H"]_vars

C8_Witness ==
    /\ ticksDone = 2
    /\ ReportsG1(allGames, 12, 8)
    /\ Len(RingOf(scoreHistoryRef, "G1")) = 2
    /\ scoreHistoryRef["G1"][1]["H"] = 10
    /\ getMomentum(scoreHistory, "G1", "H", "A") = "H"

ArgRing == RingOf(args.scoreHistory, args.gameId)

ArgPrev == ArgRing[Len(ArgRing) - 1]

ArgCurr == ArgRing[Len(ArgRing)]

\* C9: getMomentum names a side exactly when the ring has two entries or
\* more and exactly one side's score rose between the last two, and then it
\* names that side; otherwise it returns null.
C9_Momentum ==
    result.fn = "getMomentum"
    => LET two == Len(ArgRing) >= 2
           homeUp == ArgCurr[args.home] > ArgPrev[args.home]
           awayUp == ArgCurr[args.away] > ArgPrev[args.away]
       IN  /\ result.val # Null <=> (two /\ homeUp # awayUp)
           /\ (two /\ homeUp /\ ~awayUp) => result.val = args.home
           /\ (two /\ awayUp /\ ~homeUp) => result.val = args.away

\* the away side alone scored between the last two of three snapshots
C9_Witness ==
    /\ result.fn = "getMomentum"
    /\ result.val = args.away
    /\ Len(ArgRing) = 3
    /\ ArgRing[1][args.home] > ArgRing[3][args.home]

\* C10: getScoreDelta returns null for a ring of fewer than 2 entries or
\* when both deltas are zero, and otherwise a mapping with a key for each
\* side with a nonzero delta and for no other side.
C10_ScoreDelta ==
    result.fn = "getScoreDelta"
    => LET two == Len(ArgRing) >= 2
           delta == [k \in {args.home, args.away} |-> ArgCurr[k] - ArgPrev[k]]
       IN  /\ result.val = {} <=> (~two \/ \A k \in DOMAIN delta : delta[k] = 0)
           /\ result.val # {}
              => /\ DOMAIN ValueOf(result.val) = {k \in DOMAIN delta : delta[k] # 0}
                 /\ \A k \in DOMAIN ValueOf(result.val) : ValueOf(result.val)[k] = delta[k]

\* C11: isUpsetAlert is false without a winProbability; with one it is true
\* exactly when the home and away percentages, a missing side counting as
\* 50, are at most 15 apart.
C11_UpsetAlert ==
    result.fn = "isUpsetAlert"
    => IF ~Has(args, "win_probability") THEN result.val = FALSE
       ELSE LET wp == args.win_probability
                h == IF args.home \in DOMAIN wp THEN wp[args.home] ELSE 50
                a == IF args.away \in DOMAIN wp THEN wp[args.away] ELSE 50
            IN  result.val <=> (h - a <= 15 /\ a - h <= 15)

\* the away side alone is known, exactly 15 above the default of the home side
C11_Witness ==
    /\ result.fn = "isUpsetAlert"
    /\ result.val = TRUE
    /\ Has(args, "win_probability")
    /\ ~Has(args.win_probability, args.home)
    /\ Has(args.win_probability, args.away)
    /\ args.win_probability[args.away] = 65

\* the [game, league] pairs the ranker was given, in iteration order
BetEntries == Entries(args.allGames)

ScheduledAt == {i \in 1..Len(BetEntries) : BetEntries[i].game.status = "scheduled"}

\* the scheduled games that have a winProbability
WithProbAt == {i \in ScheduledAt : Has(BetEntries[i].game, "win_probability")}

HomePctAt(i) ==
    LET g == BetEntries[i].game
    IN  IF g.home \in DOMAIN g.win_probability THEN g.win_probability[g.home] ELSE 50

AwayPctAt(i) ==
    LET g == BetEntries[i].game
    IN  IF g.away \in DOMAIN g.win_probability THEN g.win_probability[g.away] ELSE 50

SkewAt(i) ==
    IF HomePctAt(i) >= AwayPctAt(i) THEN HomePctAt(i) - AwayPctAt(i)
    ELSE AwayPctAt(i) - HomePctAt(i)

\* the scheduled games whose spread favorite text contains a number
WithNumberAt ==
    {i \in ScheduledAt :
        /\ Has(BetEntries[i].game, "spread")
        /\ Has(BetEntries[i].game.spread, "favorite")
        /\ \E k \in 1..Len(BetEntries[i].game.spread.favorite) :
              BetEntries[i].game.spread.favorite[k] \in Digits}

MagnitudeAt(i) == SpreadValue(BetEntries[i].game.spread.favorite)

FirstOf(indices) == CHOOSE i \in indices : \A j \in indices : i <= j

BestBet == ValueOf(result.val)

\* C12: with a scheduled game that has a winProbability in the game set,
\* findBestBet returns a game that has a winProbability, with
\* favoritePercentage the larger of its two percentages.
C12_TierOrdering ==
    (result.fn = "findBestBet" /\ WithProbAt # {})
    => /\ result.val # {}
       /\ \E i \in WithProbAt :
             /\ BestBet.game = BetEntries[i].game
             /\ BestBet.favPct = {IF HomePctAt(i) >= AwayPctAt(i)
                                  THEN HomePctAt(i) ELSE AwayPctAt(i)}

\* no scheduled game has a skew above 0 or a spread number above 0
NoTierOneOrTwo ==
    /\ \A i \in WithProbAt : SkewAt(i) = 0
    /\ \A i \in WithNumberAt : MagnitudeAt(i).num = 0

\* C17: when no scheduled game gives a first- or second-tier result,
\* findBestBet returns the first scheduled game in the order of
\* ALL_LEAGUE_IDS (array order within a league) with favoritePercentage
\* null; it returns null exactly when the game set has no scheduled game.
C17_ThirdTier ==
    result.fn = "findBestBet"
    => /\ result.val = {} <=> ScheduledAt = {}
       /\ (NoTierOneOrTwo /\ ScheduledAt # {})
          => /\ BestBet.game = BetEntries[FirstOf(ScheduledAt)].game
             /\ BestBet.league = BetEntries[FirstOf(ScheduledAt)].league
             /\ BestBet.favPct = {}

\* the first league holds only a game that is not scheduled; the fallback
\* comes from the second league
C17_Witness ==
    /\ result.fn = "findBestBet"
    /\ NoTierOneOrTwo
    /\ Len(BetEntries) = 2
    /\ BetEntries[1].league = "nba"
    /\ result.val # {}
    /\ BestBet.league = "mls"
    /\ BestBet.favPct = {}

\* C18: among the scheduled games with a winProbability findBestBet keeps
\* the one of greatest skew, the first in iteration order among equals,
\* also when that greatest skew is 0.
C18_FirstTier ==
    (result.fn = "findBestBet" /\ WithProbAt # {})
    => LET top == {i \in WithProbAt : \A j \in WithProbAt : SkewAt(i) >= SkewAt(j)}
       IN  /\ result.val # {}
           /\ BestBet.game = BetEntries[FirstOf(top)].game
           /\ BestBet.league = BetEntries[FirstOf(top)].league

\* C19: with no winProbability on any scheduled game, findBestBet returns,
\* among the scheduled games whose favorite text contains a number, the one
\* whose first number is greatest in absolute value, the first among equals,
\* with favoritePercentage null.
C19_SecondTier ==
    (result.fn = "findBestBet" /\ WithProbAt = {} /\ WithNumberAt # {})
    => LET top == {i \in WithNumberAt :
                      \A j \in WithNumberAt : ~FracGreater(MagnitudeAt(j), MagnitudeAt(i))}
       IN  /\ result.val # {}
           /\ BestBet.game = BetEntries[FirstOf(top)].game
           /\ BestBet.favPct = {}

\* ---- C13 ----
LiveEntries == Entries(args.allGames)

InProgressAt == {i \in 1..Len(LiveEntries) : LiveEntries[i].game.status = "in_progress"}

\* twice the score the claim gives entry i:
\* max(0, 15 - 1.5 * margin) + (8 if tense) + min(ring length, 5)
LiveScore2At(i) ==
    LET g == LiveEntries[i].game
        h == IF Has(g, "score") /\ Has(g.score, g.home) THEN g.score[g.home] ELSE 0
        a == IF Has(g, "score") /\ Has(g.score, g.away) THEN g.score[g.away] ELSE 0
        margin == IF h >= a THEN h - a ELSE a - h
        closeness == IF 30 - 3 * margin > 0 THEN 30 - 3 * margin ELSE 0
        len == IF g.id \in DOMAIN args.scoreHistory THEN Len(args.scoreHistory[g.id]) ELSE 0
    IN  closeness + (IF isTenseMoment(g) THEN 16 ELSE 0) + 2 * (IF len < 5 THEN len ELSE 5)

BestLive ==
    FirstOf({i \in InProgressAt : \A j \in InProgressAt : LiveScore2At(i) >= LiveScore2At(j)})

\* C13: findBestLiveGame returns null exactly when no game of the set is
\* in_progress; otherwise it returns, with its league, the in_progress game of
\* highest score max(0, 15 - 1.5*margin) + (8 if isTenseMoment) + min(ring
\* length, 5), missing scores counting as 0, the first in league/array order
\* among those of highest score.
C13_BestLiveGame ==
    result.fn = "findBestLiveGame" =>
        /\ (result.val = {}) <=> (InProgressAt = {})
        /\ InProgressAt # {} => result.val = {LiveEntries[BestLive]}

\* two live games tie at the top and the first is returned, while a third live
\* game scores lower
C13_Witness ==
    /\ result.fn = "findBestLiveGame"
    /\ \E i, j, k \in InProgressAt :
          /\ i < j
          /\ LiveScore2At(i) = LiveScore2At(j)
          /\ LiveScore2At(k) < LiveScore2At(i)
          /\ isTenseMoment(LiveEntries[i].game)
          /\ result.val = {LiveEntries[i]}

\* ---- C14 ----
\* the score of one side of the game passed in, 0 when it is missing
ArgScore(side) ==
    IF "score" \in DOMAIN args.game /\ side \in DOMAIN args.game.score
    THEN args.game.score[side] ELSE 0

\* C14: generateRecap returns null for every game that is not final and for
\* every final whose home and away scores are both zero or absent, and a
\* sentence for every final with a nonzero score on at least one side.
C14_RecapNullity ==
    result.fn = "generateRecap" =>
        /\ args.game.status # "final" => result.val = {}
        /\ args.game.status = "final" /\ ArgScore("H") = 0 /\ ArgScore("A") = 0
              => result.val = {}
        /\ args.game.status = "final" /\ (ArgScore("H") # 0 \/ ArgScore("A") # 0)
              => result.val # {}

\* a final won by the away side over a scoreless home side yields a sentence
\* that names the scorer
C14_Witness ==
    /\ result.fn = "generateRecap"
    /\ args.game.status = "final"
    /\ ArgScore("H") = 0
    /\ ArgScore("A") > 0
    /\ \E s \in result.val : s.verb = "edged" /\ s.sealedBy # {} /\ s.winName = "Aces"

\* ---- C15 ----
\* C15: calcEntertainmentRating returns null for every game that is not final,
\* and for every final a value from 1 to 10 with at most one decimal digit
\* (ratings are counted in hundredths: from 100 to 1000, a multiple of 10).
C15_RatingRange ==
    result.fn = "calcEntertainmentRating" =>
        /\ args.game.status # "final" => result.val = {}
        /\ args.game.status = "final" =>
              \E r \in result.val : r >= 100 /\ r <= 1000 /\ r % 10 = 0

\* a one-point final in overtime with two lead changes: 5 + 2.5 + 1.6 + 1.5
\* is brought back to 10
C15_Witness ==
    /\ result.fn = "calcEntertainmentRating"
    /\ args.game.status = "final"
    /\ Abs(ArgScore("H") - ArgScore("A")) = 1
    /\ "clock" \in DOMAIN args.game /\ args.game.clock = ClockFinalOT
    /\ "G1" \in DOMAIN args.scoreHistory /\ Len(args.scoreHistory["G1"]) = 3
    /\ result.val = {1000}

\* ---- C16 ----
\* C16: a final whose home and away scores are equal is rated at least 7
\* (700 hundredths), whatever its ring and its clock text.
C16_LevelFinal ==
    result.fn = "calcEntertainmentRating"
    /\ args.game.status = "final"
    /\ ArgScore("H") = ArgScore("A")
    => \A r \in result.val : r >= 700

\* a 3-3 final without lead change or overtime is rated exactly 7
C16_Witness ==
    /\ result.fn = "calcEntertainmentRating"
    /\ args.game.status = "final"
    /\ ArgScore("H") = 3 /\ ArgScore("A") = 3
    /\ "G1" \in DOMAIN args.scoreHistory /\ Len(args.scoreHistory["G1"]) >= 2
    /\ result.val = {700}

\* ---- C20 ----
\* the game passed in, with status final
ArgAsFinal == [args.game EXCEPT !.status = "final"]

\* C20: for a game with status closed, generateRecap and
\* calcEntertainmentRating return what they return for the same record with
\* status final.
C20_ClosedAsFinal ==
    /\ result.fn = "generateRecap" /\ args.game.status = "closed"
          => result.val = generateRecap(ArgAsFinal)
    /\ result.fn = "calcEntertainmentRating" /\ args.game.status = "closed"
          => result.val = calcEntertainmentRating(ArgAsFinal, args.scoreHistory)

\* ---- C21 ----
\* the team keys of a snapshot
SidesOf(snap) == (DOMAIN snap) \ {"clock"}

\* C21: in every ring, from one entry to the next, no team's score decreases.
C21_ScoresNeverDecrease ==
    \A id \in DOMAIN scoreHistoryRef :
        \A i \in 1..(Len(scoreHistoryRef[id]) - 1) :
            \A side \in SidesOf(scoreHistoryRef[id][i]) \cap SidesOf(scoreHistoryRef[id][i + 1]) :
                scoreHistoryRef[id][i + 1][side] >= scoreHistoryRef[id][i][side]

\* ---- C23 ----
\* the tick whose response holds the snapshot (scores differ from tick to tick)
TickOfSnap(id, snap) ==
    CHOOSE t \in 1..MaxTicks :
        \E l \in LeagueSet : \E body \in TickFeed[t][l] : \E k \in 1..Len(body) :
            body[k].id = id /\ SameScore(snap, body[k])

\* C23: once every tick in flight has completed, the game set on display is
\* the one returned by the tick started last, and every ring holds its
\* snapshots in the order in which their ticks were started.
C23_NewestTickWins ==
    runs = EmptyMap /\ started > 0 =>
        /\ \A l \in DOMAIN allGames : allGames[l] \in TickFeed[started][l]
        /\ \A id \in DOMAIN scoreHistoryRef :
              \A i \in 1..(Len(scoreHistoryRef[id]) - 1) :
                  TickOfSnap(id, scoreHistoryRef[id][i])
                      < TickOfSnap(id, scoreHistoryRef[id][i + 1])

\* ---- C22 ----
\* the score of the game passed in has exactly one side
ArgOneSided ==
    /\ "score" \in DOMAIN args.game
    /\ Cardinality(DOMAIN args.game.score \cap {"H", "A"}) = 1

\* the game passed in, every missing side of its score written as 0
ArgZeroFilled ==
    [args.game EXCEPT !.score = Score("H", ArgScore("H"), "A", ArgScore("A"))]

\* the verb of the margin bands
BandVerb(margin) ==
    IF margin = 0 THEN "drew"
    ELSE IF margin <= 2 THEN "edged"
    ELSE IF margin <= 6 THEN "beat"
    ELSE "defeated"

\* C22: for a final whose score has one side only, generateRecap counts the
\* missing side as 0 in the winner, the margin, the verb and the score it
\* prints, and calcEntertainmentRating rates the game as if the missing side
\* were 0.
C22_MissingSideIsZero ==
    /\ result.fn = "generateRecap" /\ args.game.status = "final" /\ ArgOneSided
       /\ (ArgScore("H") # 0 \/ ArgScore("A") # 0)
          => \E s \in result.val :
                /\ s.winScore = Max(ArgScore("H"), ArgScore("A"))
                /\ s.loseScore = {0}
                /\ s.verb = BandVerb(Abs(ArgScore("H") - ArgScore("A")))
    /\ result.fn = "calcEntertainmentRating" /\ args.game.status = "final" /\ ArgOneSided
          => result.val = calcEntertainmentRating(ArgZeroFilled, args.scoreHistory)

\* ---- C24 ----
\* the rings, by value and by reference
StoreUnchanged ==
    /\ scoreHistoryRef' = scoreHistoryRef
    /\ heap'.arrays = heap.arrays
    /\ heap'.current = heap.current

\* only the step that completes a tick writes to the store
C24_OnlyAppendWrites == ~StoreUnchanged => Completing # {}

\* the step in which the rankers and calculators are evaluated leaves the
\* rings and the game set as they are
C24_RenderReadsOnly == result' # result => StoreUnchanged /\ allGames' = allGames

\* no array that exists is modified
C24_ArraysImmutable ==
    \A r \in 1..Len(heap.arrays) :
        r <= Len(heap'.arrays) /\ heap'.arrays[r] = heap.arrays[r]

\* the arrays of the copy a render was given still hold what they held then
C24_HeldCopyIntact ==
    \A id \in DOMAIN heap.held : heap.arrays[heap.held[id]] = heap.heldVal[id]

\* C24: the history store is written only by the append of a completing
\* tick; evaluating the calculators and rankers leaves the rings and the
\* game set unchanged; an append installs a new array and never modifies an
\* existing one, so the history copy taken after a tick is not altered by
\* later ticks.
C24_StoreFrame ==
    /\ [][C24_OnlyAppendWrites]_vars
    /\ [][C24_RenderReadsOnly]_vars
    /\ [][C24_ArraysImmutable]_vars
    /\ []C24_HeldCopyIntact

\* a render was given the history of one tick, and a later tick has appended
\* to a ring of it
C24_Witness ==
    /\ result.fn = "render"
    /\ \E id \in DOMAIN heap.held :
          /\ heap.current[id] # heap.held[id]
          /\ Len(heap.arrays[heap.current[id]]) > Len(heap.heldVal[id])
          /\ Len(heap.heldVal[id]) >= 1

\* ---- C25 ----
\* a game reported without a live score leaves its ring as it was, or absent
C25_NonLiveLeavesRing ==
    Completing # {} =>
        \A g \in GamesOf(allGames') :
            ~LiveScored(g) => Lookup(scoreHistoryRef', g.id) = Lookup(scoreHistoryRef, g.id)

\* no ring is removed or shortened
C25_RingsKept ==
    \A id \in DOMAIN scoreHistoryRef :
        /\ id \in DOMAIN scoreHistoryRef'
        /\ Len(scoreHistoryRef'[id]) >= Len(scoreHistoryRef[id])

\* C25: a tick that reports a game as scheduled, final or closed, or as
\* in_progress without a score, leaves the ring of that game unchanged and
\* creates none; no tick removes or shortens a ring, whether or not the game
\* or its league is in the feed.
C25_RingLifecycle ==
    /\ [][C25_NonLiveLeavesRing]_vars
    /\ [][C25_RingsKept]_vars

\* G1 is reported final and G2 is missing from the feed, and both keep the
\* rings that earlier ticks created
C25_Witness ==
    /\ \E g \in GamesOf(allGames) : g.id = "G1" /\ g.status = "final"
    /\ \A g \in GamesOf(allGames) : g.id # "G2"
    /\ Has(scoreHistoryRef, "G1") /\ Len(scoreHistoryRef["G1"]) = 2
    /\ Has(scoreHistoryRef, "G2")

\* ---- C26 ----
\* the clock text of the game passed in, lower-cased ("" without a clock)
ArgClock == IF "clock" \in DOMAIN args.game THEN ToLowerCase(args.game.clock) ELSE <<>>

\* the minutes the clock text shows: every number that starts a word and is
\* followed by the minute sign
ArgMinutes ==
    {DigitsValue(ArgClock, i, DigitsEnd(ArgClock, i)) :
        i \in {k \in 1..Len(ArgClock) :
                  /\ ArgClock[k] \in Digits
                  /\ (k = 1 \/ ~IsWordChar(ArgClock[k - 1]))
                  /\ DigitsEnd(ArgClock, k) <= Len(ArgClock)
                  /\ ArgClock[DigitsEnd(ArgClock, k)] = "'"}}

ArgLate ==
    \/ Includes(ArgClock, <<"4", "t", "h">>)
    \/ args.game.sport = "nhl" /\ Includes(ArgClock, <<"3", "r", "d">>)
    \/ Includes(ArgClock, <<"o", "t">>)
    \/ Includes(ArgClock, <<"o", "v", "e", "r", "t", "i", "m", "e">>)
    \/ Includes(ArgClock, <<"e", "x", "t", "r", "a">>)
    \/ \E m \in ArgMinutes : m >= 70

\* the margin a league allows: 1 for soccer, 5 for a league without an entry
ArgThreshold ==
    IF args.game.sport \in SOCCER_SLUGS THEN 1
    ELSE IF args.game.sport = "nba" THEN 5
    ELSE IF args.game.sport = "nfl" THEN 8
    ELSE IF args.game.sport = "nhl" THEN 1
    ELSE IF args.game.sport = "ncaaf" THEN 10
    ELSE IF args.game.sport = "mlb" THEN 2
    ELSE 5

ArgMargin == Abs(ArgScore("H") - ArgScore("A"))

FinalMargins ==
    {Abs(OrZero(sc.score, "H") - OrZero(sc.score, "A")) :
        sc \in {x \in FinalScores : "score" \in DOMAIN x}}

\* the part of the rating that comes from the margin: ring and clock removed
ArgBare == [k \in (DOMAIN args.game) \ {"clock"} |-> args.game[k]]

ArgMarginBonus == ValueOf(calcEntertainmentRating(ArgBare, EmptyMap)) - 500

\* C27 as stated: a final never gets a lower margin bonus than a final with
\* a wider margin, and a margin above 20 gets a penalty.
C27_MarginMonotone ==
    result.fn = "calcEntertainmentRating" /\ args.game.status = "final" =>
        /\ \A w \in FinalMargins : w > ArgMargin => ArgMarginBonus >= MarginBonus(w)
        /\ ArgMargin > 20 => ArgMarginBonus < 0

\* C27 amended: among finals with a winner (margin 1 or more) the tighter
\* margin never gets the lower margin bonus, and a margin above 20 gets a
\* penalty; a level final gets 2, less than the 2.5 of a margin of 1 or 2.
C27_MonotoneAmongDecided ==
    result.fn = "calcEntertainmentRating" /\ args.game.status = "final" =>
        /\ ArgMargin >= 1 =>
              \A w \in FinalMargins : w > ArgMargin => ArgMarginBonus >= MarginBonus(w)
        /\ ArgMargin > 20 => ArgMarginBonus < 0
        /\ ArgMargin = 0 => ArgMarginBonus = 200 /\ ArgMarginBonus < MarginBonus(1)

\* a 21-point final without lead change or overtime is rated 3.5
C27_Witness ==
    /\ result.fn = "calcEntertainmentRating"
    /\ args.game.status = "final"
    /\ ArgMargin = 21
    /\ "clock" \notin DOMAIN args.game
    /\ args.scoreHistory = EmptyMap
    /\ result.val = {350}

\* ---- C28 ----
\* the ring of the game passed in
ArgOwnRing ==
    IF args.game.id \in DOMAIN args.scoreHistory THEN args.scoreHistory[args.game.id] ELSE <<>>

\* the snapshots of that ring in which one side leads, in ring order
ArgDecided ==
    Filter(ArgOwnRing, {snap \in Range(ArgOwnRing) : snap["H"] # snap["A"]})

\* the times the leading side differs from the leading side before it
ArgChanges ==
    Cardinality({i \in 1..(Len(ArgDecided) - 1) :
                    (ArgDecided[i]["H"] > ArgDecided[i]["A"])
                        # (ArgDecided[i + 1]["H"] > ArgDecided[i + 1]["A"])})

\* C28: the rating of a final is a function of the record and of the ring
\* of that game alone: it is the value obtained from a history that holds
\* nothing but this ring, whatever else the store holds; and the ring adds
\* min(0.8 * changes, 2) to the rating the record has without a ring, changes
\* being the transitions of the leading side, level snapshots left aside.
C28_RatingOfInputsOnly ==
    result.fn = "calcEntertainmentRating" /\ args.game.status = "final" =>
        /\ result.val = calcEntertainmentRating(args.game, (args.game.id :> ArgOwnRing))
        /\ ValueOf(calcEntertainmentRating(ArgBare, args.scoreHistory))
              = ValueOf(calcEntertainmentRating(ArgBare, EmptyMap))
                + (IF 80 * ArgChanges < 200 THEN 80 * ArgChanges ELSE 200)

\* the ring goes from a home lead over a level score to an away lead, next
\* to the ring of another game: one lead change
C28_Witness ==
    /\ result.fn = "calcEntertainmentRating"
    /\ args.game.status = "final"
    /\ "G2" \in DOMAIN args.scoreHistory
    /\ Len(ArgOwnRing) = 3
    /\ ArgOwnRing[1]["H"] > ArgOwnRing[1]["A"]
    /\ ArgOwnRing[2]["H"] = ArgOwnRing[2]["A"]
    /\ ArgOwnRing[3]["H"] < ArgOwnRing[3]["A"]
    /\ ArgChanges = 1
    /\ ValueOf(result.val) = ValueOf(calcEntertainmentRating(args.game, EmptyMap)) + 80

\* ---- C29 ----
\* the side the claim names as winner, the other side, and their names
ArgWinner == IF ArgScore("H") >= ArgScore("A") THEN "H" ELSE "A"

ArgLoser == IF ArgWinner = "H" THEN "A" ELSE "H"

ArgName(side) ==
    IF side \in DOMAIN args.game.teams /\ "name" \in DOMAIN args.game.teams[side]
    THEN args.game.teams[side].name ELSE side

\* C29: for a final with a nonzero score the sentence starts with the name
\* of the side with the greater-or-equal score (home when level), its verb is
\* drew for margin 0, edged for 1..2, beat for 3..6 and defeated above 6, and
\* it states the winner's score before the loser's.
C29_WinnerAndVerb ==
    result.fn = "generateRecap" /\ args.game.status = "final"
    /\ (ArgScore("H") # 0 \/ ArgScore("A") # 0)
    => \E s \in result.val :
          /\ s.line[1] = ArgName(ArgWinner)
          /\ s.line[2] = BandVerb(ArgMargin)
          /\ \E i \in 1..(Len(s.line) - 2) :
                /\ s.line[i] = ToString(ArgScore(ArgWinner))
                /\ s.line[i + 1] = "-"
                /\ s.line[i + 2] = ToString(ArgScore(ArgLoser))

\* ---- C30 ----
\* the events of the log that are goals, not own goals, of the winning side
ArgEvents == IF "events" \in DOMAIN args.game THEN args.game.events ELSE <<>>

ArgWinningGoals ==
    {i \in 1..Len(ArgEvents) :
        LET e == ArgEvents[i]
        IN  /\ "type" \in DOMAIN e
            /\ Includes(ToLowerCase(e.type), <<"g", "o", "a", "l">>)
            /\ ~Includes(ToLowerCase(e.type), <<"o", "w", "n">>)
            /\ ("isHome" \in DOMAIN e /\ e.isHome) <=> (ArgWinner = "H")}

ArgLastWinningGoal ==
    ArgEvents[CHOOSE i \in ArgWinningGoals : \A j \in ArgWinningGoals : j <= i]

\* C30: the sentence carries the scorer clause exactly when the league is a
\* soccer league, the event log is not empty, the margin is at most 2 and the
\* last goal of the winning side that is not an own goal names a player; the
\* clause then names that player.
C30_ScorerClause ==
    result.fn = "generateRecap" =>
        \A s \in result.val :
            LET due == /\ args.game.sport \in SOCCER_SLUGS
                       /\ Len(ArgEvents) > 0
                       /\ ArgMargin <= 2
                       /\ ArgWinningGoals # {}
                       /\ "player" \in DOMAIN ArgLastWinningGoal
            IN  /\ due <=> (\E k \in 1..Len(s.line) : s.line[k] = "sealed it")
                /\ due => \E k \in 1..(Len(s.line) - 2) :
                              /\ s.line[k] = "--"
                              /\ s.line[k + 1] = ArgLastWinningGoal.player
                              /\ s.line[k + 2] = "sealed it"
====
